---- MODULE Spec2Model ----
(***************************************************************************)
(* A model of the SOCKS5 client of pangolin (src/src/socks): the wire      *)
(* codec of client.rs, the no-authentication method of method.rs and the   *)
(* three front-ends Socks5Stream, Socks5Listener and Socks5Datagram.       *)
(*                                                                         *)
(* The proxy and the byte stream are the environment.  The stream's write  *)
(* may accept any prefix of the buffer it is given or fail; the proxy may  *)
(* send any of a bounded set of byte chunks, or close the stream.          *)
(***************************************************************************)
EXTENDS Integers, Sequences, FiniteSets, TLC

(***************************************************************************)
(* Program constants                                                       *)
(***************************************************************************)
VERSION == 5

BufLen == 262

U8Max == 255

NoAuthCode == 0

(***************************************************************************)
(* Bounds of the model                                                     *)
(***************************************************************************)
\* how many chunks the proxy sends on the control stream of one session
MaxSends == 3

\* how many pass-through / datagram operations are made on a front-end
MaxOps == 2

(***************************************************************************)
(* Bytes and addresses                                                     *)
(***************************************************************************)
Take(s, n) == SubSeq(s, 1, n)

Drop(s, n) == SubSeq(s, n + 1, Len(s))

IsPrefix(p, s) == Len(p) <= Len(s) /\ Take(s, Len(p)) = p

Rep(b, n) == [i \in 1..n |-> b]

\* WriteBytesExt::write_u16::<NetworkEndian>
WriteU16(p) == <<p \div 256, p % 256>>

\* NetworkEndian::read_u16 of the first two bytes of s
ReadU16(s) == s[1] * 256 + s[2]

\* TargetAddr: Ip(SocketAddr::V4), Ip(SocketAddr::V6), Domain(String, u16)
V4(ip, port) == [tag |-> "V4", host |-> ip, port |-> port]

V6(ip, port) == [tag |-> "V6", host |-> ip, port |-> port]

Domain(name, port) == [tag |-> "Domain", host |-> name, port |-> port]

NoAddr == [tag |-> "None", host |-> <<>>, port |-> 0]

\* RequestType as u8
RequestTypes == {"Connect", "Bind", "UdpAssociate"}

RequestTypeCode(t) ==
  CASE t = "Connect"      -> 1
    [] t = "Bind"         -> 2
    [] t = "UdpAssociate" -> 3

(***************************************************************************)
(* impl TryFrom<Request> for Vec<u8>                                       *)
(***************************************************************************)
EncOk(bytes) == [ok |-> TRUE, bytes |-> bytes, err |-> "none"]

EncErr(e) == [ok |-> FALSE, bytes |-> <<>>, err |-> e]

\* mutant: the port is written little-endian
RequestBytes_LittleEndianPort(request_type, target_addr) ==
  LET head == <<VERSION, RequestTypeCode(request_type), 0>>
      le(p) == <<p % 256, p \div 256>>
  IN CASE target_addr.tag = "V4" ->
            EncOk(head \o <<1>> \o target_addr.host \o le(target_addr.port))
       [] target_addr.tag = "Domain" ->
            IF Len(target_addr.host) > U8Max
            THEN EncErr("DomainTooLong")
            ELSE EncOk(head \o <<3, Len(target_addr.host)>> \o target_addr.host
                            \o le(target_addr.port))
       [] target_addr.tag = "V6" ->
            EncOk(head \o <<4>> \o target_addr.host \o le(target_addr.port))

\* mutant: the length byte is the length truncated to 8 bits, never an error
RequestBytes_TruncatedLength(request_type, target_addr) ==
  LET head == <<VERSION, RequestTypeCode(request_type), 0>>
  IN CASE target_addr.tag = "V4" ->
            EncOk(head \o <<1>> \o target_addr.host \o WriteU16(target_addr.port))
       [] target_addr.tag = "Domain" ->
            EncOk(head \o <<3, Len(target_addr.host) % 256>> \o target_addr.host
                       \o WriteU16(target_addr.port))
       [] target_addr.tag = "V6" ->
            EncOk(head \o <<4>> \o target_addr.host \o WriteU16(target_addr.port))

RequestBytes(request_type, target_addr) ==
  LET head == <<VERSION, RequestTypeCode(request_type), 0>>
  IN CASE target_addr.tag = "V4" ->
            EncOk(head \o <<1>> \o target_addr.host \o WriteU16(target_addr.port))
       [] target_addr.tag = "Domain" ->
            \* domain.len().try_into::<u8>().map_err(|_| DomainTooLong)?
            IF Len(target_addr.host) > U8Max
            THEN EncErr("DomainTooLong")
            ELSE EncOk(head \o <<3, Len(target_addr.host)>> \o target_addr.host
                            \o WriteU16(target_addr.port))
       [] target_addr.tag = "V6" ->
            EncOk(head \o <<4>> \o target_addr.host \o WriteU16(target_addr.port))

(***************************************************************************)
(* Socks5Client::pack_datagram                                             *)
(***************************************************************************)
\* pack_datagram with a two-byte reserved field and no fragment byte
pack_datagram_NoFragment(dst, data) ==
  LET head == <<0, 0>>
  IN CASE dst.tag = "V4" ->
            EncOk(head \o <<1>> \o dst.host \o WriteU16(dst.port) \o data)
       [] dst.tag = "Domain" ->
            IF Len(dst.host) > U8Max
            THEN EncErr("DomainTooLong")
            ELSE EncOk(head \o <<3, Len(dst.host)>> \o dst.host
                            \o WriteU16(dst.port) \o data)
       [] dst.tag = "V6" ->
            EncOk(head \o <<4>> \o dst.host \o WriteU16(dst.port) \o data)

pack_datagram(dst, data) ==
  LET head == <<0, 0, 0>>
  IN CASE dst.tag = "V4" ->
            EncOk(head \o <<1>> \o dst.host \o WriteU16(dst.port) \o data)
       [] dst.tag = "Domain" ->
            IF Len(dst.host) > U8Max
            THEN EncErr("DomainTooLong")
            ELSE EncOk(head \o <<3, Len(dst.host)>> \o dst.host
                            \o WriteU16(dst.port) \o data)
       [] dst.tag = "V6" ->
            EncOk(head \o <<4>> \o dst.host \o WriteU16(dst.port) \o data)

(***************************************************************************)
(* Socks5Client::recv_reply, run on the unread bytes s of the stream.      *)
(* closed says that the proxy has closed the stream, so that a read_exact  *)
(* that lacks bytes fails with Io (UnexpectedEof) instead of suspending.   *)
(* The result tells how the call ends and how many bytes it consumed.      *)
(***************************************************************************)
ReplyOk(a, n) == [st |-> "ok", err |-> "none", addr |-> a, used |-> n]

ReplyErr(e, n) == [st |-> "err", err |-> e, addr |-> NoAddr, used |-> n]

\* an out-of-range slice or index aborts the task
ReplyPanic(n) == [st |-> "panic", err |-> "panic", addr |-> NoAddr, used |-> n]

ReplyPending == [st |-> "pending", err |-> "none", addr |-> NoAddr, used |-> 0]

\* read_exact lacks bytes
ReplyShort(s, closed) == IF closed THEN ReplyErr("Io", Len(s)) ELSE ReplyPending

\* &buf[begin..end] of a buffer of len bytes is in range
SliceOk(begin, end, len) == begin <= end /\ end <= len

\* String::from_utf8_lossy on the bytes of a name: ASCII bytes are kept,
\* a byte that is not valid UTF-8 becomes U+FFFD (EF BF BD)
RECURSIVE from_utf8_lossy(_)
from_utf8_lossy(bs) ==
  IF bs = <<>> THEN <<>>
  ELSE (IF Head(bs) < 128 THEN <<Head(bs)>> ELSE <<239, 191, 189>>)
       \o from_utf8_lossy(Tail(bs))

\* mutant: host unreachable is reported as connection refused
ReplyError_Swapped(rep) ==
  CASE rep = 1 -> "GeneralSocksServerFailure"
    [] rep = 2 -> "ConnectionNotAllowed"
    [] rep = 3 -> "NetworkUnreachable"
    [] rep = 4 -> "ConnectionRefused"
    [] rep = 5 -> "ConnectionRefused"
    [] rep = 6 -> "TtlExpired"
    [] rep = 7 -> "CommandNotSupported"
    [] rep = 8 -> "AddressTypeNotSupported"
    [] OTHER   -> "Unassigned"

\* match buf[1] of recv_reply, for a non-zero rep
ReplyError(rep) ==
  CASE rep = 1 -> "GeneralSocksServerFailure"
    [] rep = 2 -> "ConnectionNotAllowed"
    [] rep = 3 -> "NetworkUnreachable"
    [] rep = 4 -> "HostUnreachable"
    [] rep = 5 -> "ConnectionRefused"
    [] rep = 6 -> "TtlExpired"
    [] rep = 7 -> "CommandNotSupported"
    [] rep = 8 -> "AddressTypeNotSupported"
    [] OTHER   -> "Unassigned"

\* the arm 0x01 of match buf[3]
ReplyV4(s, closed) ==
  LET begin  == 4
      offset == 4 + 2
  IN IF ~SliceOk(begin, begin + offset, BufLen) THEN ReplyPanic(4)
     ELSE IF Len(s) < begin + offset THEN ReplyShort(s, closed)
     ELSE LET buf == SubSeq(s, begin + 1, begin + offset)
          IN ReplyOk(V4(Take(buf, 4), ReadU16(Drop(buf, 4))), begin + offset)

\* the arm 0x3 of match buf[3]
ReplyDomain(s, closed) ==
  IF Len(s) < 5 THEN ReplyShort(s, closed)
  ELSE LET len    == s[5]
           begin  == 5
           offset == len + 2
       IN \* &mut buf[begin..offset]
          IF ~SliceOk(begin, offset, BufLen) THEN ReplyPanic(5)
          ELSE LET n == offset - begin
               IN IF Len(s) < 5 + n THEN ReplyShort(s, closed)
                  ELSE LET buf == SubSeq(s, 6, 5 + n)
                       IN \* &buf[..len], then read_u16(&buf[len..])
                          IF ~SliceOk(0, len, n) \/ n - len < 2
                          THEN ReplyPanic(5 + n)
                          ELSE ReplyOk(Domain(from_utf8_lossy(Take(buf, len)),
                                              ReadU16(Drop(buf, len))), 5 + n)

\* the arm 0x4 of match buf[3]
ReplyV6(s, closed) ==
  LET begin  == 4
      offset == 16 + 2
  IN IF ~SliceOk(begin, begin + offset, BufLen) THEN ReplyPanic(4)
     ELSE IF Len(s) < begin + offset THEN ReplyShort(s, closed)
     ELSE LET buf == SubSeq(s, begin + 1, begin + offset)
          IN ReplyOk(V6(Take(buf, 16), ReadU16(Drop(buf, 16))), begin + offset)

\* mutant: the reserved byte and the address type are checked before rep
recv_reply_RepLast(s, closed) ==
  IF Len(s) < 4 THEN ReplyShort(s, closed)
  ELSE IF s[1] # VERSION THEN ReplyErr("InvalidResponseVersion", 4)
  ELSE IF s[3] # 0 THEN ReplyErr("InvalidReservedByte", 4)
  ELSE IF s[4] \notin {1, 3, 4} THEN ReplyErr("InvalidAddressType", 4)
  ELSE IF s[2] # 0 THEN ReplyErr(ReplyError(s[2]), 4)
  ELSE IF s[4] = 1 THEN ReplyV4(s, closed)
  ELSE IF s[4] = 3 THEN ReplyDomain(s, closed)
  ELSE ReplyV6(s, closed)

recv_reply(s, closed) ==
  IF Len(s) < 4 THEN ReplyShort(s, closed)
  ELSE IF s[1] # VERSION THEN ReplyErr("InvalidResponseVersion", 4)
  ELSE IF s[2] # 0 THEN ReplyErr(ReplyError(s[2]), 4)
  ELSE IF s[3] # 0 THEN ReplyErr("InvalidReservedByte", 4)
  ELSE IF s[4] = 1 THEN ReplyV4(s, closed)
  ELSE IF s[4] = 3 THEN ReplyDomain(s, closed)
  ELSE IF s[4] = 4 THEN ReplyV6(s, closed)
  ELSE ReplyErr("InvalidAddressType", 4)

(***************************************************************************)
(* Inputs of the caller                                                    *)
(***************************************************************************)
FrontEnds == {"Stream", "Listener", "Datagram"}

\* 127.0.0.1:2000
TargetV4 == V4(<<127, 0, 0, 1>>, 2000)

\* [::1]:8080
TargetV6 == V6(Rep(0, 15) \o <<1>>, 8080)

\* example.com:80
TargetDomain ==
  Domain(<<101, 120, 97, 109, 112, 108, 101, 46, 99, 111, 109>>, 80)

TargetEmptyDomain == Domain(<<>>, 80)

\* the longest name that fits the length byte, and the first that does not
TargetMaxDomain == Domain(Rep(97, U8Max), 443)

TargetLongDomain == Domain(Rep(97, U8Max + 1), 443)

TargetLongerDomain == Domain(Rep(97, U8Max + 45), 443)

Targets ==
  {TargetV4, TargetV6, TargetDomain, TargetEmptyDomain, TargetMaxDomain,
   TargetLongDomain, TargetLongerDomain}

\* the target of the UDP ASSOCIATE request, 0.0.0.0:0
UnspecifiedV4 == V4(<<0, 0, 0, 0>>, 0)

\* payloads written to a Stream
Payloads == {<<104, 105>>}

\* payloads and targets of the datagrams sent on a Datagram
DatagramPayloads == {<<104, 105>>, <<33>>}

DatagramTargets == {TargetV4, TargetV6, TargetDomain, TargetLongDomain}

\* the targets given to Socks5Listener::bind_with_socket
BindTargets == {TargetV4, TargetDomain, TargetLongDomain}

\* sizes of the caller's read buffers
ReadSizes == {1, 2}

\* sizes of the caller's recv_from buffers
RecvSizes == {2, 16}

\* the destinations and the relay given to a NoAuthentication that the
\* application drives itself
MethodTargets == {TargetV4}

MethodRelays == {V4(<<10, 0, 0, 1>>, 8888)}

(***************************************************************************)
(* What the proxy may send on the control stream                           *)
(***************************************************************************)
GreetingReplies == {<<5, 0>>, <<5, 255>>, <<4, 0>>, <<4, 255>>, <<5, 2>>, <<5>>}

\* 10.0.0.1:8888 and 10.0.0.2:12345
BodyV4a == <<10, 0, 0, 1, 34, 184>>

BodyV4b == <<10, 0, 0, 2, 48, 57>>

\* [2001:db8::5]:9000
BodyV6 == <<32, 1, 13, 184>> \o Rep(0, 11) \o <<5, 35, 40>>

\* a domain of n bytes "b" with port 8080
BodyDomain(n) == <<n>> \o Rep(98, n) \o <<31, 144>>

DomainLens == {0, 1, 2, 3, 4, 11}

Frame(ver, rep, rsv, atyp, body) == <<ver, rep, rsv, atyp>> \o body

FrameV4a == Frame(5, 0, 0, 1, BodyV4a)

FrameV4b == Frame(5, 0, 0, 1, BodyV4b)

FrameV6 == Frame(5, 0, 0, 4, BodyV6)

WellFormedFrames ==
  {FrameV4a, FrameV4b, FrameV6} \cup {Frame(5, 0, 0, 3, BodyDomain(n)) : n \in DomainLens}

\* frames whose header fails one or several checks
BadFrames ==
  {Frame(ver, rep, rsv, atyp, BodyV4a) :
     ver \in {4, 5}, rep \in {0, 4}, rsv \in {0, 1}, atyp \in {1, 2}}
  \cup {Frame(5, rep, 0, 1, Rep(0, 6)) : rep \in {1, 2, 3, 4, 5, 6, 7, 8, 9, 255}}
  \cup {Frame(5, 0, 0, atyp, BodyV4a) : atyp \in {0, 5, 255}}

\* frames cut short, and frames followed by more bytes
CutFrames ==
  {Take(FrameV4a, n) : n \in {1, 4, 7}}
  \cup {Take(FrameV6, 12), <<5, 0, 0, 3>>, <<5, 0, 0, 3, 2>>,
        <<5, 0, 0, 3, 5, 98, 98>>, <<5, 0, 0, 3, 6, 98>>}

JoinedFrames == {FrameV4a \o FrameV4b, FrameV6 \o <<9, 9>>}

\* what the proxy sends when the client waits for the greeting reply
GreetingChunks == GreetingReplies \cup {<<5, 0>> \o FrameV4a, FrameV4a}

\* what the proxy sends when the client waits for a reply
ReplyChunks ==
  WellFormedFrames \cup BadFrames \cup CutFrames \cup JoinedFrames
  \cup {<<5, 0>>}

\* what the proxy relays from the peer once a Stream exists
TunnelChunks == {<<119, 111>>}

(***************************************************************************)
(* State                                                                   *)
(***************************************************************************)
VARIABLES
  pc,        \* where the running constructor or accept is suspended
  call,      \* the front-end constructor that was called, with its target
  outcome,   \* how the last constructor or accept ended
  socket,    \* the proxy stream: "open" or "dropped"
  method,    \* NoAuthentication { socket, datagram_socket, dst }
  front,     \* the front-end value the caller holds
  data,      \* the buffer send_request encoded
  writes,    \* every write call on the stream, in order
  wire,      \* the bytes the stream accepted, in order
  rx,        \* the bytes the proxy sent, in order
  rpos,      \* how many of them were read
  closed,    \* the proxy closed the stream
  sends,     \* number of chunks the proxy sent
  replies,   \* every finished recv_reply, in order
  ops,       \* number of operations made on the front-end
  io_log,    \* the operations made on the front-end and their results
  udp_out    \* the datagrams handed to the datagram socket, each with the
             \* target and the payload of the send_to that made it

vars ==
  <<pc, call, outcome, socket, method, front, data, writes, wire, rx, rpos,
    closed, sends, replies, ops, io_log, udp_out>>

NoFront == [kind |-> "None", addr |-> NoAddr]

NoMethod ==
  [created |-> FALSE, handshaken |-> FALSE, datagram_socket |-> "None",
   dst |-> NoAddr]

Init ==
  /\ pc = "idle"
  /\ call = [kind |-> "None", target |-> NoAddr]
  /\ outcome = "none"
  /\ socket = "open"
  /\ method = NoMethod
  /\ front = NoFront
  /\ data = <<>>
  /\ writes = <<>>
  /\ wire = <<>>
  /\ rx = <<>>
  /\ rpos = 0
  /\ closed = FALSE
  /\ sends = 0
  /\ replies = <<>>
  /\ ops = 0
  /\ io_log = <<>>
  /\ udp_out = <<>>

\* the bytes the proxy sent that were not read yet
Unread == Drop(rx, rpos)

(***************************************************************************)
(* The byte stream: AsyncWriteExt::write accepts the first n bytes of buf, *)
(* 1 <= n <= len, or fails (-1).  The model takes a failure, the count 1   *)
(* and the counts len - 1 and len.                                         *)
(***************************************************************************)
WriteResults(buf) == {-1, 1, Len(buf) - 1, Len(buf)}

WriteEntry(op, buf, n) ==
  [op |-> op, buf |-> buf, n |-> n, rpos |-> rpos,
   handshaken |-> method.handshaken]

\* an error return or an unwinding drops the session and its stream
Fail(e) ==
  /\ outcome' = e
  /\ pc' = "done"
  /\ socket' = "dropped"
  /\ front' = NoFront

(***************************************************************************)
(* The front-end constructors up to the end of Socks5Client::connect       *)
(***************************************************************************)
\* Socks5Stream::connect_with_socket, Socks5Listener::bind_with_socket or
\* Socks5Datagram::bind_with_socket_and_datagram is called
Begin(k, t) ==
  /\ pc = "idle"
  /\ call' = [kind |-> k, target |-> t]
  /\ pc' = "greeting"
  /\ UNCHANGED <<outcome, socket, method, front, data, writes, wire, rx, rpos,
                 closed, sends, replies, ops, io_log, udp_out>>

\* socket.write(&[VERSION, 0x1, M::code()]).await?
ConnectGreeting ==
  /\ pc = "greeting"
  /\ LET buf == <<VERSION, 1, NoAuthCode>>
     IN \E n \in WriteResults(buf) :
          /\ writes' = Append(writes, WriteEntry("greeting", buf, n))
          /\ IF n = -1
             THEN Fail("Io") /\ UNCHANGED wire
             ELSE /\ wire' = wire \o Take(buf, n)
                  /\ pc' = "greeting_reply"
                  /\ UNCHANGED <<outcome, socket, front>>
  /\ UNCHANGED <<call, method, data, rx, rpos, closed, sends, replies, ops,
                 io_log, udp_out>>

\* the checks in the other order: the method byte first
GreetingCheck_MethodFirst(buf) ==
  IF buf[2] = 255 THEN "NoAcceptableMethod"
  ELSE IF buf[1] # VERSION THEN "InvalidResponseVersion"
  ELSE "ok"

\* the checks of a connect that accepts only the method it offered
GreetingCheck_OfferedOnly(buf) ==
  IF buf[1] # VERSION THEN "InvalidResponseVersion"
  ELSE IF buf[2] # NoAuthCode THEN "NoAcceptableMethod"
  ELSE "ok"

\* the two checks of connect on the greeting reply
GreetingCheck(buf) ==
  IF buf[1] # VERSION THEN "InvalidResponseVersion"
  ELSE IF buf[2] = 255 THEN "NoAcceptableMethod"
  ELSE "ok"

\* socket.read_exact(&mut buf).await? and the checks of the reply
ConnectReply ==
  /\ pc = "greeting_reply"
  /\ IF Len(Unread) >= 2
     THEN /\ rpos' = rpos + 2
          /\ LET c == GreetingCheck(Take(Unread, 2))
             IN IF c = "ok"
                THEN pc' = "create" /\ UNCHANGED <<outcome, socket, front>>
                ELSE Fail(c)
     ELSE /\ closed
          /\ rpos' = Len(rx)
          /\ Fail("Io")
  /\ UNCHANGED <<call, method, data, writes, wire, rx, closed, sends, replies,
                 ops, io_log, udp_out>>

\* M::create(socket).await?
MethodCreate ==
  /\ pc = "create"
  /\ method' = [NoMethod EXCEPT !.created = TRUE]
  /\ pc' = "handshake"
  /\ UNCHANGED <<call, outcome, socket, front, data, writes, wire, rx, rpos,
                 closed, sends, replies, ops, io_log, udp_out>>

\* method.handshake().await?; Ok(Self { method })
MethodHandshake ==
  /\ pc = "handshake"
  /\ method' = [method EXCEPT !.handshaken = TRUE]
  /\ pc' = "request"
  /\ UNCHANGED <<call, outcome, socket, front, data, writes, wire, rx, rpos,
                 closed, sends, replies, ops, io_log, udp_out>>

(***************************************************************************)
(* Socks5Client::send_request and the end of the constructors              *)
(***************************************************************************)
RequestOf(k) ==
  CASE k = "Stream"   -> "Connect"
    [] k = "Listener" -> "Bind"
    [] k = "Datagram" -> "UdpAssociate"

RequestTarget == IF call.kind = "Datagram" THEN UnspecifiedV4 ELSE call.target

\* let data: Vec<u8> = request.try_into()?; self.method.write(&data).await?
SendRequest ==
  /\ pc = "request"
  /\ LET r == RequestBytes(RequestOf(call.kind), RequestTarget)
     IN IF ~r.ok
        THEN Fail(r.err) /\ UNCHANGED <<data, writes, wire>>
        ELSE /\ data' = r.bytes
             /\ \E n \in WriteResults(r.bytes) :
                  /\ writes' = Append(writes, WriteEntry("request", r.bytes, n))
                  /\ IF n = -1
                     THEN Fail("Io") /\ UNCHANGED wire
                     ELSE /\ wire' = wire \o Take(r.bytes, n)
                          /\ pc' = "reply"
                          /\ UNCHANGED <<outcome, socket, front>>
  /\ UNCHANGED <<call, method, rx, rpos, closed, sends, replies, ops, io_log,
                 udp_out>>

\* a finished recv_reply: where it started, the unread bytes it ran on and
\* whether the stream was closed, and how it ended
ReplyEntry(op, res) ==
  [op |-> op, start |-> rpos, input |-> Unread, eof |-> closed, res |-> res]

\* mutant: connect_with_socket drops the result of send_request without `?`
SendRequestReply_IgnoreError ==
  /\ pc = "reply"
  /\ LET res == recv_reply(Unread, closed)
     IN /\ res.st # "pending"
        /\ rpos' = rpos + res.used
        /\ replies' = Append(replies, ReplyEntry("request", res))
        /\ IF res.st # "ok" /\ call.kind # "Stream" THEN Fail(res.err)
           ELSE IF call.kind = "Stream"
           THEN /\ front' = [kind |-> "Stream", addr |-> call.target]
                /\ outcome' = "Ok"
                /\ pc' = "done"
                /\ UNCHANGED socket
           ELSE IF call.kind = "Listener"
           THEN /\ front' = [kind |-> "Listener", addr |-> res.addr]
                /\ outcome' = "Ok"
                /\ pc' = "done"
                /\ UNCHANGED socket
           ELSE /\ pc' = "register"
                /\ UNCHANGED <<outcome, socket, front>>
  /\ UNCHANGED <<call, method, data, writes, wire, rx, closed, sends, ops,
                 io_log, udp_out>>

\* let addr = self.recv_reply().await?, and what the constructor does with it
SendRequestReply ==
  /\ pc = "reply"
  /\ LET res == recv_reply(Unread, closed)
     IN /\ res.st # "pending"
        /\ rpos' = rpos + res.used
        /\ replies' = Append(replies, ReplyEntry("request", res))
        /\ IF res.st # "ok" THEN Fail(res.err)
           ELSE IF call.kind = "Stream"
           THEN /\ front' = [kind |-> "Stream", addr |-> call.target]
                /\ outcome' = "Ok"
                /\ pc' = "done"
                /\ UNCHANGED socket
           ELSE IF call.kind = "Listener"
           THEN /\ front' = [kind |-> "Listener", addr |-> res.addr]
                /\ outcome' = "Ok"
                /\ pc' = "done"
                /\ UNCHANGED socket
           ELSE /\ pc' = "register"
                /\ UNCHANGED <<outcome, socket, front>>
  /\ UNCHANGED <<call, method, data, writes, wire, rx, closed, sends, ops,
                 io_log, udp_out>>

\* register_endpoints is given the target of the request, not the address of
\* the reply
RegisterEndpoints_RequestTarget ==
  /\ pc = "register"
  /\ method' = [method EXCEPT !.datagram_socket = "udp", !.dst = RequestTarget]
  /\ front' = [kind |-> "Datagram", addr |-> NoAddr]
  /\ outcome' = "Ok"
  /\ pc' = "done"
  /\ UNCHANGED <<call, socket, data, writes, wire, rx, rpos, closed, sends,
                 replies, ops, io_log, udp_out>>

\* client.register_endpoints(datagram, relay_addr).await?; Ok(Self { client })
RegisterEndpoints ==
  /\ pc = "register"
  /\ LET relay_addr == replies[Len(replies)].res.addr
     IN method' = [method EXCEPT !.datagram_socket = "udp", !.dst = relay_addr]
  /\ front' = [kind |-> "Datagram", addr |-> NoAddr]
  /\ outcome' = "Ok"
  /\ pc' = "done"
  /\ UNCHANGED <<call, socket, data, writes, wire, rx, rpos, closed, sends,
                 replies, ops, io_log, udp_out>>

(***************************************************************************)
(* Socks5Listener::accept                                                  *)
(***************************************************************************)
\* accept(mut self) takes the Listener by value
AcceptCall ==
  /\ front.kind = "Listener"
  /\ front' = NoFront
  /\ outcome' = "none"
  /\ pc' = "accept"
  /\ UNCHANGED <<call, socket, method, data, writes, wire, rx, rpos, closed,
                 sends, replies, ops, io_log, udp_out>>

\* mutant: the Stream gets the target of the bind request as its peer
AcceptReply_PeerIsTarget ==
  /\ pc = "accept"
  /\ LET res == recv_reply(Unread, closed)
     IN /\ res.st # "pending"
        /\ rpos' = rpos + res.used
        /\ replies' = Append(replies, ReplyEntry("accept", res))
        /\ IF res.st # "ok" THEN Fail(res.err)
           ELSE /\ front' = [kind |-> "Stream", addr |-> call.target]
                /\ outcome' = "Ok"
                /\ pc' = "done"
                /\ UNCHANGED socket
  /\ UNCHANGED <<call, method, data, writes, wire, rx, closed, sends, ops,
                 io_log, udp_out>>

\* let remote_addr = self.client.recv_reply().await?;
\* Ok(Socks5Stream::new(self.client, remote_addr))
AcceptReply ==
  /\ pc = "accept"
  /\ LET res == recv_reply(Unread, closed)
     IN /\ res.st # "pending"
        /\ rpos' = rpos + res.used
        /\ replies' = Append(replies, ReplyEntry("accept", res))
        /\ IF res.st # "ok" THEN Fail(res.err)
           ELSE /\ front' = [kind |-> "Stream", addr |-> res.addr]
                /\ outcome' = "Ok"
                /\ pc' = "done"
                /\ UNCHANGED socket
  /\ UNCHANGED <<call, method, data, writes, wire, rx, closed, sends, ops,
                 io_log, udp_out>>

(***************************************************************************)
(* Socks5Stream: AsyncRead / AsyncWrite go to the client, the method and   *)
(* its socket                                                              *)
(***************************************************************************)
IoEntry(op, arg, res, addr, bytes) ==
  [op |-> op, arg |-> arg, res |-> res, addr |-> addr, bytes |-> bytes,
   registered |-> method.datagram_socket # "None"]

Min(a, b) == IF a <= b THEN a ELSE b

\* a write that puts the number of bytes before the bytes
StreamWrite_Framed(buf) ==
  /\ front.kind = "Stream"
  /\ ops < MaxOps
  /\ ops' = ops + 1
  /\ \E n \in WriteResults(buf) :
       /\ writes' = Append(writes, WriteEntry("stream", buf, n))
       /\ wire' = IF n = -1 THEN wire ELSE wire \o <<n>> \o Take(buf, n)
       /\ io_log' = Append(io_log,
            IoEntry("write", buf, IF n = -1 THEN "Io" ELSE "Ok", NoAddr,
                    IF n = -1 THEN <<>> ELSE Take(buf, n)))
  /\ UNCHANGED <<pc, call, outcome, socket, method, front, data, rx, rpos,
                 closed, sends, replies, udp_out>>

\* poll_write of Socks5Stream, Socks5Client and NoAuthentication
StreamWrite(buf) ==
  /\ front.kind = "Stream"
  /\ ops < MaxOps
  /\ ops' = ops + 1
  /\ \E n \in WriteResults(buf) :
       /\ writes' = Append(writes, WriteEntry("stream", buf, n))
       /\ wire' = IF n = -1 THEN wire ELSE wire \o Take(buf, n)
       /\ io_log' = Append(io_log,
            IoEntry("write", buf, IF n = -1 THEN "Io" ELSE "Ok", NoAddr,
                    IF n = -1 THEN <<>> ELSE Take(buf, n)))
  /\ UNCHANGED <<pc, call, outcome, socket, method, front, data, rx, rpos,
                 closed, sends, replies, udp_out>>

\* poll_read of Socks5Stream, Socks5Client and NoAuthentication into a buffer
\* of size bytes: some of the unread bytes, or none at the end of the stream
StreamRead(size) ==
  /\ front.kind = "Stream"
  /\ ops < MaxOps
  /\ ops' = ops + 1
  /\ IF Unread # <<>>
     THEN \E k \in 1..Min(size, Len(Unread)) :
            /\ rpos' = rpos + k
            /\ io_log' = Append(io_log,
                 IoEntry("read", <<>>, "Ok", NoAddr, Take(Unread, k)))
     ELSE /\ closed
          /\ rpos' = rpos
          /\ io_log' = Append(io_log, IoEntry("read", <<>>, "Ok", NoAddr, <<>>))
  /\ UNCHANGED <<pc, call, outcome, socket, method, front, data, writes, wire,
                 rx, closed, sends, replies, udp_out>>

(***************************************************************************)
(* Socks5Datagram::send_to and recv_from                                   *)
(***************************************************************************)
\* impl TryFrom<TargetAddr> for SocketAddr: an Ip is itself, a Domain is
\* resolved by the host's resolver
Resolved(addr) ==
  IF addr.tag = "Domain"
  THEN {[ok |-> TRUE, addr |-> V4(<<93, 184, 216, 34>>, addr.port), err |-> "none"],
        [ok |-> FALSE, addr |-> NoAddr, err |-> "InvalidTargetAddress"],
        [ok |-> FALSE, addr |-> NoAddr, err |-> "Io"]}
  ELSE {[ok |-> TRUE, addr |-> addr, err |-> "none"]}

\* the datagrams that arrive at the datagram socket: the sender, the bytes,
\* and the target and the payload that the relay enclosed in them
InboundDatagrams ==
  {[from |-> V4(<<10, 0, 0, 1>>, 8888),
    bytes |-> <<0, 0, 0, 1, 1, 2, 3, 4, 30, 198, 119, 111>>,
    target |-> V4(<<1, 2, 3, 4>>, 7878), payload |-> <<119, 111>>],
   [from |-> V4(<<10, 0, 0, 9>>, 53),
    bytes |-> <<0, 0, 0, 3, 1, 98, 0, 80, 33>>,
    target |-> Domain(<<98>>, 80), payload |-> <<33>>]}

\* send_to that keeps the address it last sent to as the relay
SendTo_RemembersTarget(buf, addr) ==
  /\ front.kind = "Datagram"
  /\ ops < MaxOps
  /\ ops' = ops + 1
  /\ LET packed == pack_datagram(addr, buf)
     IN IF ~packed.ok
        THEN /\ io_log' = Append(io_log,
                  IoEntry("send_to", addr, packed.err, NoAddr, <<>>))
             /\ UNCHANGED <<udp_out, method>>
        ELSE \E r \in Resolved(addr) :
               IF ~r.ok
               THEN /\ io_log' = Append(io_log,
                         IoEntry("send_to", addr, r.err, NoAddr, <<>>))
                    /\ UNCHANGED <<udp_out, method>>
               ELSE /\ io_log' = Append(io_log,
                         IoEntry("send_to", addr, "Ok", r.addr, packed.bytes))
                    /\ udp_out' = Append(udp_out,
                         [dest |-> r.addr, bytes |-> packed.bytes,
                          target |-> addr, payload |-> buf])
                    /\ method' = [method EXCEPT !.dst = r.addr]
  /\ UNCHANGED <<pc, call, outcome, socket, front, data, writes, wire,
                 rx, rpos, closed, sends, replies>>

\* Socks5Client::poll_send_to, NoAuthentication::poll_send_to and
\* UdpSocket::poll_send_to
SendTo(buf, addr) ==
  /\ front.kind = "Datagram"
  /\ ops < MaxOps
  /\ ops' = ops + 1
  /\ LET packed == pack_datagram(addr, buf)
     IN IF ~packed.ok
        THEN /\ io_log' = Append(io_log,
                  IoEntry("send_to", addr, packed.err, NoAddr, <<>>))
             /\ UNCHANGED udp_out
        ELSE IF method.datagram_socket = "None"
        THEN /\ io_log' = Append(io_log,
                  IoEntry("send_to", addr, "DatagramSocketNotRegistered",
                          NoAddr, <<>>))
             /\ UNCHANGED udp_out
        ELSE \E r \in Resolved(addr) :
               IF ~r.ok
               THEN /\ io_log' = Append(io_log,
                         IoEntry("send_to", addr, r.err, NoAddr, <<>>))
                    /\ UNCHANGED udp_out
               ELSE /\ io_log' = Append(io_log,
                         IoEntry("send_to", addr, "Ok", r.addr, packed.bytes))
                    /\ udp_out' = Append(udp_out,
                         [dest |-> r.addr, bytes |-> packed.bytes,
                          target |-> addr, payload |-> buf])
  /\ UNCHANGED <<pc, call, outcome, socket, method, front, data, writes, wire,
                 rx, rpos, closed, sends, replies>>

\* Socks5Client::poll_recv_from, NoAuthentication::poll_recv_from and
\* UdpSocket::poll_recv_from, into a buffer of size bytes
RecvFrom(size) ==
  /\ front.kind = "Datagram"
  /\ ops < MaxOps
  /\ ops' = ops + 1
  /\ IF method.datagram_socket = "None"
     THEN io_log' = Append(io_log,
            IoEntry("recv_from", <<>>, "DatagramSocketNotRegistered", NoAddr, <<>>))
     ELSE \E d \in InboundDatagrams :
            io_log' = Append(io_log,
              IoEntry("recv_from", <<>>, "Ok", d.from,
                      Take(d.bytes, Min(size, Len(d.bytes)))))
  /\ UNCHANGED <<pc, call, outcome, socket, method, front, data, writes, wire,
                 rx, rpos, closed, sends, replies, udp_out>>

(***************************************************************************)
(* A NoAuthentication that the application creates and drives itself       *)
(***************************************************************************)
\* NoAuthentication::create(socket)
NoAuthCreate ==
  /\ pc = "idle"
  /\ call' = [kind |-> "Method", target |-> NoAddr]
  /\ method' = [NoMethod EXCEPT !.created = TRUE]
  /\ pc' = "method"
  /\ UNCHANGED <<outcome, socket, front, data, writes, wire, rx, rpos, closed,
                 sends, replies, ops, io_log, udp_out>>

\* NoAuthentication::register_endpoints(src, dst)
NoAuthRegisterEndpoints(dst) ==
  /\ pc = "method"
  /\ method' = [method EXCEPT !.datagram_socket = "udp", !.dst = dst]
  /\ UNCHANGED <<pc, call, outcome, socket, front, data, writes, wire, rx, rpos,
                 closed, sends, replies, ops, io_log, udp_out>>

\* poll_send_to that hands the datagram to the socket without looking at
\* datagram_socket
NoAuthPollSendTo_Unchecked(buf, target) ==
  /\ pc = "method"
  /\ ops < MaxOps
  /\ ops' = ops + 1
  /\ io_log' = Append(io_log, IoEntry("method_send_to", target, "Ok", target, buf))
  /\ udp_out' = Append(udp_out,
       [dest |-> target, bytes |-> buf, target |-> target, payload |-> buf])
  /\ UNCHANGED <<pc, call, outcome, socket, method, front, data, writes, wire,
                 rx, rpos, closed, sends, replies>>

\* NoAuthentication::poll_send_to and UdpSocket::poll_send_to
NoAuthPollSendTo(buf, target) ==
  /\ pc = "method"
  /\ ops < MaxOps
  /\ ops' = ops + 1
  /\ IF method.datagram_socket = "None"
     THEN /\ io_log' = Append(io_log,
               IoEntry("method_send_to", target, "DatagramSocketNotRegistered",
                       NoAddr, <<>>))
          /\ UNCHANGED udp_out
     ELSE \E r \in Resolved(target) :
            IF ~r.ok
            THEN /\ io_log' = Append(io_log,
                      IoEntry("method_send_to", target, r.err, NoAddr, <<>>))
                 /\ UNCHANGED udp_out
            ELSE /\ io_log' = Append(io_log,
                      IoEntry("method_send_to", target, "Ok", r.addr, buf))
                 /\ udp_out' = Append(udp_out,
                      [dest |-> r.addr, bytes |-> buf,
                       target |-> target, payload |-> buf])
  /\ UNCHANGED <<pc, call, outcome, socket, method, front, data, writes, wire,
                 rx, rpos, closed, sends, replies>>

\* NoAuthentication::poll_recv_from and UdpSocket::poll_recv_from
NoAuthPollRecvFrom(size) ==
  /\ pc = "method"
  /\ ops < MaxOps
  /\ ops' = ops + 1
  /\ IF method.datagram_socket = "None"
     THEN io_log' = Append(io_log,
            IoEntry("method_recv_from", <<>>, "DatagramSocketNotRegistered",
                    NoAddr, <<>>))
     ELSE \E d \in InboundDatagrams :
            io_log' = Append(io_log,
              IoEntry("method_recv_from", <<>>, "Ok", d.from,
                      Take(d.bytes, Min(size, Len(d.bytes)))))
  /\ UNCHANGED <<pc, call, outcome, socket, method, front, data, writes, wire,
                 rx, rpos, closed, sends, replies, udp_out>>

(***************************************************************************)
(* The proxy.  The client reads the stream in order, so only what the      *)
(* proxy sends matters, not when or in how many pieces: the proxy sends a  *)
(* chunk when the client waits for bytes and has read all that was sent,   *)
(* and a chunk may hold fewer or more bytes than the client waits for.     *)
(* After a chunk that holds too few bytes the proxy can only close.        *)
(***************************************************************************)
Waiting ==
  \/ pc = "greeting_reply" /\ Len(Unread) < 2
  \/ pc \in {"reply", "accept"} /\ recv_reply(Unread, FALSE).st = "pending"
  \/ front.kind = "Stream" /\ Unread = <<>> /\ ops < MaxOps

\* a successful reply that carries the address bytes of the request
EchoChunks == IF Len(data) > 3 THEN {<<5, 0, 0>> \o Drop(data, 3)} ELSE {}

ProxyChunks ==
  IF front.kind = "Stream" THEN TunnelChunks
  ELSE IF pc = "greeting_reply" THEN GreetingChunks
  ELSE ReplyChunks \cup EchoChunks

ProxySend(chunk) ==
  /\ socket = "open"
  /\ ~closed
  /\ Waiting
  /\ Unread = <<>>
  /\ sends < MaxSends
  /\ sends' = sends + 1
  /\ rx' = rx \o chunk
  /\ UNCHANGED <<pc, call, outcome, socket, method, front, data, writes, wire,
                 rpos, closed, replies, ops, io_log, udp_out>>

\* the proxy may close the stream before the client has read what was sent
ProxyClose ==
  /\ socket = "open"
  /\ ~closed
  /\ \/ pc \in {"greeting_reply", "reply", "accept"}
     \/ front.kind = "Stream" /\ ops < MaxOps
  /\ closed' = TRUE
  /\ UNCHANGED <<pc, call, outcome, socket, method, front, data, writes, wire,
                 rx, rpos, sends, replies, ops, io_log, udp_out>>

(***************************************************************************)
(* Specification                                                           *)
(***************************************************************************)
ClientNext ==
  \/ \E t \in Targets : Begin("Stream", t)
  \/ \E t \in BindTargets : Begin("Listener", t)
  \/ Begin("Datagram", NoAddr)
  \/ ConnectGreeting
  \/ ConnectReply
  \/ MethodCreate
  \/ MethodHandshake
  \/ SendRequest
  \/ SendRequestReply
  \/ RegisterEndpoints
  \/ AcceptCall
  \/ AcceptReply
  \/ \E buf \in Payloads : StreamWrite(buf)
  \/ \E size \in ReadSizes : StreamRead(size)
  \/ \E buf \in DatagramPayloads, addr \in DatagramTargets : SendTo(buf, addr)
  \/ \E size \in RecvSizes : RecvFrom(size)
  \/ NoAuthCreate
  \/ \E dst \in MethodRelays : NoAuthRegisterEndpoints(dst)
  \/ \E buf \in DatagramPayloads, target \in MethodTargets :
       NoAuthPollSendTo(buf, target)
  \/ \E size \in RecvSizes : NoAuthPollRecvFrom(size)

Next ==
  \/ ClientNext
  \/ \E chunk \in ProxyChunks : ProxySend(chunk)
  \/ ProxyClose

Spec == Init /\ [][Next]_vars

(***************************************************************************)
(* Properties                                                              *)
(***************************************************************************)
Greeting == <<5, 1, 0>>

\* the write calls made by a constructor
ConstructorWrites == SelectSeq(writes, LAMBDA w : w.op \in {"greeting", "request"})

\* C1: in a run of a front-end constructor the bytes written to the proxy
\* stream are the 3-byte greeting [05 01 method] and then, only after the
\* 2-byte greeting reply was read and checked and the handshake returned Ok,
\* exactly one request that starts with 05; the handshake reads and writes
\* nothing in between.
C1_GreetingThenOneRequest ==
  LET cw == ConstructorWrites
  IN /\ Len(cw) <= 2
     /\ Len(cw) >= 1 => cw[1].op = "greeting" /\ cw[1].buf = Greeting
     /\ Len(cw) = 2 =>
          /\ cw[2].op = "request"
          /\ cw[2].buf[1] = 5
          /\ cw[2].handshaken
          /\ cw[2].rpos = 2
          /\ Take(rx, 2)[1] = 5 /\ Take(rx, 2)[2] # 255
     /\ pc \in {"greeting_reply", "create", "handshake", "request"} =>
          wire = Greeting
     /\ pc \in {"reply", "register"} =>
          wire = Greeting \o data /\ data[1] = 5

\* C2: when the proxy answers the greeting with [05 FF], connect fails with
\* NoAcceptableMethod, the method is never created or handshaken, and the
\* only bytes ever written to the stream are the 3 bytes of the greeting.
C2_NoAcceptableMethod ==
  (Len(rx) >= 2 /\ Take(rx, 2) = <<5, 255>> /\ rpos >= 2) =>
     /\ outcome = "NoAcceptableMethod"
     /\ ~method.created /\ ~method.handshaken
     /\ Len(writes) = 1
     /\ wire = Greeting

\* the error kinds of Socks5Error
Socks5Errors ==
  {"Io", "DomainTooLong", "InvalidResponseVersion", "NoAcceptableMethod",
   "GeneralSocksServerFailure", "ConnectionNotAllowed", "NetworkUnreachable",
   "HostUnreachable", "ConnectionRefused", "TtlExpired", "CommandNotSupported",
   "AddressTypeNotSupported", "Unassigned", "InvalidReservedByte",
   "InvalidAddressType", "InvalidTargetAddress", "DatagramSocketNotRegistered"}

\* the reply format of the protocol, read off the bytes b the proxy sent
HeaderBad(b) ==
  Len(b) >= 4 /\ (b[1] # 5 \/ b[2] # 0 \/ b[3] # 0 \/ b[4] \notin {1, 3, 4})

\* 4 + addr_len + 2 for a reply with a good header
FrameLen(b) ==
  CASE b[4] = 1 -> 4 + 4 + 2
    [] b[4] = 4 -> 4 + 16 + 2
    [] b[4] = 3 -> IF Len(b) < 5 THEN 5 ELSE 4 + (1 + b[5]) + 2

\* the stream ended before the end of a read of the reply: the header, the
\* address and port of an IP reply, or the length byte of a domain reply
ReadCut(b, eof) ==
  /\ eof
  /\ \/ Len(b) < 4
     \/ /\ ~HeaderBad(b)
        /\ \/ b[4] = 1 /\ Len(b) < 4 + 4 + 2
           \/ b[4] = 4 /\ Len(b) < 4 + 16 + 2
           \/ b[4] = 3 /\ Len(b) < 5

FrameWhole(b) == Len(b) >= 4 /\ ~HeaderBad(b) /\ Len(b) >= FrameLen(b)

\* the address a whole reply carries
FrameAddr(b) ==
  CASE b[4] = 1 -> V4(SubSeq(b, 5, 8), b[9] * 256 + b[10])
    [] b[4] = 4 -> V6(SubSeq(b, 5, 20), b[21] * 256 + b[22])
    [] b[4] = 3 -> Domain(SubSeq(b, 6, 5 + b[5]),
                          b[6 + b[5]] * 256 + b[7 + b[5]])

\* the session is gone: no front-end value, and no operation can be made
SessionGone ==
  /\ socket = "dropped"
  /\ front = NoFront
  /\ ~ENABLED ClientNext

\* the constructor or accept returned an error and the session is gone
ReturnedError == outcome \in Socks5Errors /\ SessionGone

\* C3: a front-end value exists only if every protocol step before it
\* succeeded; when the greeting reply or a reply has a bad version, a
\* non-zero rep, a bad reserved byte, an unknown address type, or a read is
\* cut short by the end of the stream, the constructor or accept returns an
\* error, the session and its stream are dropped and no later operation is
\* made on the session.
C3_FrontEndOnlyAfterSuccess ==
  /\ front.kind # "None" =>
       /\ outcome = "Ok" /\ socket = "open"
       /\ rpos >= 2 /\ rx[1] = 5 /\ rx[2] # 255
       /\ Len(replies) >= 1
       /\ \A i \in DOMAIN replies :
            replies[i].res.st = "ok" /\ FrameWhole(replies[i].input)
  /\ ( /\ pc \notin {"idle", "method", "greeting", "greeting_reply"}
       /\ writes[1].n # -1
       /\ (Len(rx) < 2 \/ rx[1] # 5 \/ rx[2] = 255) ) => ReturnedError
  /\ \A i \in DOMAIN replies :
       \/ HeaderBad(replies[i].input)
       \/ ReadCut(replies[i].input, replies[i].eof)
       \/ replies[i].res.err = "Io"
       => ReturnedError
  /\ outcome \notin {"none", "Ok"} => SessionGone

\* a reply with an unknown address type made the constructor fail
C3_Witness ==
  /\ Len(replies) = 1
  /\ replies[1].input = <<5, 0, 0, 2>> \o BodyV4a
  /\ outcome = "InvalidAddressType"
  /\ SessionGone

\* a reply cut short by the end of the stream made accept fail
C3_WitnessCut ==
  /\ Len(replies) = 2
  /\ replies[2].op = "accept"
  /\ ReadCut(replies[2].input, replies[2].eof)
  /\ outcome = "Io"
  /\ SessionGone

\* C4: for every well-formed reply with ver 05, rep 00, rsv 00 and atyp 01,
\* 03 or 04, recv_reply returns the address embedded in the reply and
\* consumes exactly 4 + addr_len + 2 bytes, leaving what follows unread.
C4_DecodeWellFormedReply ==
  \A i \in DOMAIN replies :
    FrameWhole(replies[i].input) =>
      /\ replies[i].res.st = "ok"
      /\ replies[i].res.addr = FrameAddr(replies[i].input)
      /\ replies[i].res.used = FrameLen(replies[i].input)

\* code of the request a constructor sends
CmdOf(k) == IF k = "Stream" THEN 1 ELSE IF k = "Listener" THEN 2 ELSE 3

\* C5: the encoded request is [05, cmd, 00, atyp, addr, port_hi, port_lo]
\* with cmd 01 Connect, 02 Bind, 03 UdpAssociate; atyp 01 and 4 bytes for
\* IPv4, atyp 04 and 16 bytes for IPv6, atyp 03, a length byte N and the N
\* bytes of the name for a domain; the port is big-endian.
C5_RequestEncoding ==
  data # <<>> =>
    LET t == RequestTarget
        n == Len(t.host)
    IN /\ data[1] = 5 /\ data[2] = CmdOf(call.kind) /\ data[3] = 0
       /\ t.tag = "V4" =>
            /\ Len(data) = 10 /\ data[4] = 1 /\ n = 4
            /\ SubSeq(data, 5, 8) = t.host
       /\ t.tag = "V6" =>
            /\ Len(data) = 22 /\ data[4] = 4 /\ n = 16
            /\ SubSeq(data, 5, 20) = t.host
       /\ t.tag = "Domain" =>
            /\ n <= 255
            /\ Len(data) = 4 + 1 + n + 2 /\ data[4] = 3 /\ data[5] = n
            /\ SubSeq(data, 6, 5 + n) = t.host
       /\ data[Len(data) - 1] * 256 + data[Len(data)] = t.port
       /\ data[Len(data) - 1] \in 0..255 /\ data[Len(data)] \in 0..255

\* the request CONNECT example.com:80 was encoded
C5_Witness ==
  /\ pc = "reply"
  /\ data = <<5, 1, 0, 3, 11, 101, 120, 97, 109, 112, 108, 101, 46, 99, 111,
              109, 0, 80>>

\* C6: encoding a TargetAddress with the request encoder and decoding the
\* address part with the reply decoder yields the same TargetAddress.
C6_EncodeDecodeRoundTrip ==
  \A i \in DOMAIN replies :
    (Len(data) > 3 /\ replies[i].input = <<5, 0, 0>> \o Drop(data, 3)) =>
      replies[i].res.st = "ok" /\ replies[i].res.addr = RequestTarget

\* the reply errors of rep 01..08, in order
RepErrors ==
  <<"GeneralSocksServerFailure", "ConnectionNotAllowed", "NetworkUnreachable",
    "HostUnreachable", "ConnectionRefused", "TtlExpired", "CommandNotSupported",
    "AddressTypeNotSupported">>

\* C7: for a reply header with ver 05 recv_reply maps rep 01..08 to the
\* eight reply errors in order and every other non-zero rep to Unassigned,
\* and returns an address only for rep 00.
C7_RepMapping ==
  \A i \in DOMAIN replies :
    LET b == replies[i].input
        r == replies[i].res
    IN (Len(b) >= 4 /\ b[1] = 5) =>
         /\ b[2] # 0 =>
              /\ r.st = "err" /\ r.addr = NoAddr
              /\ r.err = IF b[2] \in 1..8 THEN RepErrors[b[2]] ELSE "Unassigned"
         /\ r.st = "ok" => b[2] = 0

\* the reply 05 04 00 01 00 00 00 00 00 00 was decoded as HostUnreachable
C7_Witness ==
  /\ Len(replies) = 1
  /\ replies[1].input = <<5, 4, 0, 1, 0, 0, 0, 0, 0, 0>>
  /\ replies[1].res.err = "HostUnreachable"
  /\ outcome = "HostUnreachable"

\* C8: recv_reply checks the header in the order ver, rep, rsv, atyp and
\* reports the first check that fails; after an unknown atyp no address
\* byte is read.
C8_HeaderCheckOrder ==
  \A i \in DOMAIN replies :
    LET b == replies[i].input
        r == replies[i].res
    IN Len(b) >= 4 =>
         /\ b[1] # 5 => r.st = "err" /\ r.err = "InvalidResponseVersion"
         /\ (b[1] = 5 /\ b[2] # 0) =>
              r.st = "err" /\ r.err \in {RepErrors[k] : k \in 1..8} \cup {"Unassigned"}
         /\ (b[1] = 5 /\ b[2] = 0 /\ b[3] # 0) =>
              r.st = "err" /\ r.err = "InvalidReservedByte"
         /\ (b[1] = 5 /\ b[2] = 0 /\ b[3] = 0 /\ b[4] \notin {1, 3, 4}) =>
              r.st = "err" /\ r.err = "InvalidAddressType" /\ r.used = 4
         /\ HeaderBad(b) => r.used = 4 /\ rpos = replies[i].start + 4

\* a reply with a non-zero rep, a bad reserved byte and an unknown address
\* type was reported by its rep
C8_Witness ==
  /\ Len(replies) = 1
  /\ replies[1].input = <<5, 4, 1, 2>> \o BodyV4a
  /\ replies[1].res.err = "HostUnreachable"

\* C9: a request whose target is a Domain of 256 bytes or more makes
\* send_request fail with DomainTooLong; it writes no byte to the stream
\* and reads no reply.
C9_DomainTooLong ==
  ( /\ call.kind \in {"Stream", "Listener"}
    /\ call.target.tag = "Domain" /\ Len(call.target.host) >= 256
    /\ method.handshaken
    /\ pc # "request" ) =>
      /\ outcome = "DomainTooLong"
      /\ front = NoFront
      /\ \A j \in DOMAIN writes : writes[j].op = "greeting"
      /\ Len(wire) <= 3
      /\ replies = <<>>
      /\ rpos = 2

\* send_request failed on a name of 256 bytes
C9_Witness ==
  /\ call.target = TargetLongDomain
  /\ method.handshaken
  /\ outcome = "DomainTooLong"

\* C10: the Listener's bind_addr is the address of the first reply; accept
\* is made at most once per Listener, decodes one further reply that starts
\* at the first byte after the first reply and, on success, yields a Stream
\* whose peer_addr is the address of that second reply; if the second reply
\* is an error accept yields no Stream.
C10_ListenerAccept ==
  /\ front.kind = "Listener" =>
       /\ Len(replies) = 1
       /\ FrameWhole(replies[1].input)
       /\ front.addr = FrameAddr(replies[1].input)
  /\ Cardinality({i \in DOMAIN replies : replies[i].op = "accept"}) <= 1
  /\ (pc = "accept" \/ Len(replies) >= 2) => front.kind # "Listener"
  /\ \A i \in DOMAIN replies :
       replies[i].op = "accept" =>
         /\ i = 2 /\ call.kind = "Listener"
         /\ FrameWhole(replies[1].input)
         /\ replies[2].start = replies[1].start + FrameLen(replies[1].input)
         /\ IsPrefix(replies[2].input, Drop(rx, replies[2].start))
         /\ IF replies[2].res.st = "ok"
            THEN /\ front.kind = "Stream"
                 /\ FrameWhole(replies[2].input)
                 /\ front.addr = FrameAddr(replies[2].input)
            ELSE front = NoFront

\* bind to 127.0.0.1:2000 was answered with 10.0.0.1:8888 and accept with
\* 10.0.0.2:12345
C10_Witness ==
  /\ call = [kind |-> "Listener", target |-> TargetV4]
  /\ Len(replies) = 2
  /\ replies[1].res.addr = V4(<<10, 0, 0, 1>>, 8888)
  /\ front = [kind |-> "Stream", addr |-> V4(<<10, 0, 0, 2>>, 12345)]

\* C11: every datagram that send_to hands to the datagram socket has as its
\* socket-level destination the relay endpoint that the UDP ASSOCIATE reply
\* carried and register_endpoints stored, whatever the target is.
C11_SendToRelay ==
  call.kind = "Datagram" =>
    \A i \in DOMAIN udp_out : udp_out[i].dest = method.dst

\* C12: a datagram emitted by send_to with payload p and target t is the
\* three zero bytes, the address type 01, 03 or 04, the address of t as it
\* was given (a domain as its length byte and its bytes, at most 255, never a
\* resolved IP), the port in network byte order, and then p unchanged; each
\* successful send_to emitted one datagram.
C12_DatagramEncoding ==
  call.kind = "Datagram" =>
    /\ Len(udp_out) =
         Cardinality({i \in DOMAIN io_log :
                        io_log[i].op = "send_to" /\ io_log[i].res = "Ok"})
    /\ \A i \in DOMAIN udp_out :
         LET b == udp_out[i].bytes
             t == udp_out[i].target
             p == udp_out[i].payload
             a == IF t.tag = "Domain" THEN 1 + Len(t.host) ELSE Len(t.host)
         IN /\ Len(b) = 4 + a + 2 + Len(p)
            /\ Take(b, 3) = <<0, 0, 0>>
            /\ b[4] \in {1, 3, 4}
            /\ t.tag = "V4" => b[4] = 1 /\ Len(t.host) = 4 /\ SubSeq(b, 5, 8) = t.host
            /\ t.tag = "V6" => b[4] = 4 /\ Len(t.host) = 16 /\ SubSeq(b, 5, 20) = t.host
            /\ t.tag = "Domain" =>
                 /\ b[4] = 3
                 /\ Len(t.host) <= 255
                 /\ b[5] = Len(t.host)
                 /\ SubSeq(b, 6, 5 + Len(t.host)) = t.host
            /\ b[4 + a + 1] = t.port \div 256
            /\ b[4 + a + 2] = t.port % 256
            /\ Drop(b, 4 + a + 2) = p

\* a datagram for example.com:80 was emitted, and one for 127.0.0.1:2000
C12_Witness ==
  /\ Len(udp_out) = 2
  /\ udp_out[1].target = TargetDomain
  /\ udp_out[1].bytes[4] = 3
  /\ udp_out[2].target = TargetV4
  /\ udp_out[2].payload = <<33>>

\* C13: a recv_from that succeeds on a datagram [00 00 00 atyp addr port
\* payload] puts only the payload (as much of it as the buffer holds) in the
\* caller's buffer and returns the address enclosed in the header, not the
\* address of the sender.
C13_RecvFromStripsHeader ==
  \A i \in DOMAIN io_log :
    (io_log[i].op = "recv_from" /\ io_log[i].res = "Ok") =>
      \E d \in InboundDatagrams :
        /\ io_log[i].addr = d.target
        /\ io_log[i].bytes # <<>>
        /\ IsPrefix(io_log[i].bytes, d.payload)

DatagramOps == {"send_to", "recv_from", "method_send_to", "method_recv_from"}

\* C14: a send_to or recv_from made while no datagram socket is registered
\* fails with DatagramSocketNotRegistered, returns nothing and hands no
\* datagram to a socket; once register_endpoints has stored a socket it stays
\* registered and no send_to or recv_from fails with that error.
C14_DatagramSocketNotRegistered ==
  /\ \A i \in DOMAIN io_log :
       io_log[i].op \in DatagramOps =>
         IF io_log[i].registered
         THEN /\ io_log[i].res # "DatagramSocketNotRegistered"
              /\ \A j \in DOMAIN io_log : j > i => io_log[j].registered
         ELSE /\ io_log[i].res = "DatagramSocketNotRegistered"
              /\ io_log[i].bytes = <<>>
              /\ io_log[i].addr = NoAddr
  /\ Len(udp_out) =
       Cardinality({i \in DOMAIN io_log :
                      /\ io_log[i].op \in {"send_to", "method_send_to"}
                      /\ io_log[i].res = "Ok"
                      /\ io_log[i].registered})
  /\ front.kind = "Datagram" => method.datagram_socket # "None"

\* a send_to on a NoAuthentication failed before register_endpoints and one
\* succeeded after it
C14_Witness ==
  /\ Len(io_log) = 2
  /\ io_log[1].op = "method_send_to"
  /\ io_log[1].res = "DatagramSocketNotRegistered"
  /\ io_log[2].op = "method_send_to"
  /\ io_log[2].res = "Ok"
  /\ Len(udp_out) = 1

\* the UDP ASSOCIATE request for 0.0.0.0:0
UdpAssociateRequest == <<5, 3, 0, 1, 0, 0, 0, 0, 0, 0>>

\* C15: the constructor of a Datagram issues one request, UDP ASSOCIATE for
\* 0.0.0.0:0; it registers the datagram socket only after the reply to that
\* request was decoded successfully, with the address of that reply as the
\* relay; the Datagram exists only once the socket is registered, so no
\* send_to or recv_from on a Datagram meets an unregistered method.
C15_DatagramConstruction ==
  call.kind = "Datagram" =>
    /\ \A i \in DOMAIN writes :
         writes[i].op = "request" => writes[i].buf = UdpAssociateRequest
    /\ Cardinality({i \in DOMAIN writes : writes[i].op = "request"}) <= 1
    /\ (pc = "register" \/ method.datagram_socket # "None") =>
         /\ Len(replies) = 1
         /\ replies[1].res.st = "ok"
         /\ FrameWhole(replies[1].input)
         /\ \E i \in DOMAIN writes : writes[i].op = "request"
    /\ pc = "register" => method.datagram_socket = "None" /\ front = NoFront
    /\ method.datagram_socket # "None" =>
         method.dst = FrameAddr(replies[1].input)
    /\ front.kind = "Datagram" =>
         method.datagram_socket # "None" /\ outcome = "Ok" /\ pc = "done"
    /\ front.kind \in {"None", "Datagram"}
    /\ \A i \in DOMAIN io_log :
         /\ io_log[i].op \in {"send_to", "recv_from"}
         /\ io_log[i].registered

\* a Datagram whose relay is 10.0.0.1:8888, the address of the reply, has
\* sent a datagram
C15_Witness ==
  /\ front.kind = "Datagram"
  /\ replies[1].input = FrameV4a
  /\ method.dst = V4(<<10, 0, 0, 1>>, 8888)
  /\ Len(udp_out) = 1

\* C16: while a Datagram exists its control stream is open, and a step taken
\* while it exists (a send_to or a recv_from, in any order) keeps the
\* Datagram, writes nothing to the control stream and reads nothing from it,
\* and leaves the registered datagram socket and the registered relay as
\* they were.
C16_ControlStreamUntouched ==
  /\ [](front.kind = "Datagram" => socket = "open")
  /\ [][front.kind = "Datagram" =>
          /\ front' = front
          /\ socket' = socket
          /\ writes' = writes
          /\ wire' = wire
          /\ rpos' = rpos
          /\ replies' = replies
          /\ method' = method]_vars

\* a Datagram has sent a datagram and then received one, and its relay is
\* still the one that was registered
C16_Witness ==
  /\ front.kind = "Datagram"
  /\ Len(io_log) = 2
  /\ io_log[1].op = "send_to" /\ io_log[1].res = "Ok"
  /\ io_log[2].op = "recv_from" /\ io_log[2].res = "Ok"
  /\ method.dst = FrameAddr(replies[1].input)
  /\ method.datagram_socket = "udp"
  /\ Len(writes) = 2

RECURSIVE Flatten(_)
\* the concatenation of a sequence of sequences
Flatten(ss) == IF ss = <<>> THEN <<>> ELSE ss[1] \o Flatten(Drop(ss, 1))

\* the bytes the stream accepted from the constructor's writes
ConstructorBytes ==
  Flatten([i \in DOMAIN ConstructorWrites |->
             IF ConstructorWrites[i].n = -1 THEN <<>>
             ELSE Take(ConstructorWrites[i].buf, ConstructorWrites[i].n)])

\* the bytes that the writes, or the reads, on the Stream returned as done
StreamBytes(op) ==
  Flatten([i \in DOMAIN io_log |->
             IF io_log[i].op = op THEN io_log[i].bytes ELSE <<>>])

\* C17: a Stream made by CONNECT has as peer_addr the target that was asked
\* for, whatever address the reply carried; the bytes its writes accepted are
\* on the wire unchanged and in order right after what the request write put
\* there, every write being a prefix of the caller's buffer; the bytes its
\* reads returned are the proxy's bytes, unchanged and in order, from the
\* first byte after the reply up to the read position.
C17_StreamPassThrough ==
  (call.kind = "Stream" /\ front.kind = "Stream") =>
    /\ front.addr = call.target
    /\ Len(replies) = 1 /\ FrameWhole(replies[1].input)
    /\ \A i \in DOMAIN writes :
         writes[i].op = "stream" => i > 2 /\ writes[2].op = "request"
    /\ \A i \in DOMAIN io_log :
         /\ io_log[i].op \in {"write", "read"}
         /\ io_log[i].op = "write" => IsPrefix(io_log[i].bytes, io_log[i].arg)
    /\ wire = ConstructorBytes \o StreamBytes("write")
    /\ rpos >= 2 + FrameLen(replies[1].input)
    /\ StreamBytes("read") =
         SubSeq(rx, 2 + FrameLen(replies[1].input) + 1, rpos)

\* CONNECT to 127.0.0.1:2000 was answered with 10.0.0.1:8888; the Stream
\* wrote "hi" and then read a byte that the proxy relayed
C17_Witness ==
  /\ call = [kind |-> "Stream", target |-> TargetV4]
  /\ front = [kind |-> "Stream", addr |-> TargetV4]
  /\ replies[1].res.addr = V4(<<10, 0, 0, 1>>, 8888)
  /\ Len(io_log) = 2
  /\ io_log[1].op = "write" /\ io_log[1].bytes = <<104, 105>>
  /\ io_log[2].op = "read" /\ io_log[2].bytes = <<119>>

\* connect has read the two bytes of the greeting reply
GreetingReplyRead == call.kind \in FrontEnds /\ rpos >= 2

\* C18: once connect has read the greeting reply, a first byte other than 05
\* makes it fail with InvalidResponseVersion, also when the second byte is
\* ff; it fails with NoAcceptableMethod exactly when the first byte is 05 and
\* the second is ff, and NoAcceptableMethod has no other cause.
C18_GreetingVersionFirst ==
  /\ GreetingReplyRead =>
       /\ rx[1] # 5 => outcome = "InvalidResponseVersion" /\ replies = <<>>
       /\ (rx[1] = 5 /\ rx[2] = 255) => outcome = "NoAcceptableMethod"
       /\ (rx[1] = 5 /\ rx[2] # 255) => pc \notin {"greeting", "greeting_reply"}
  /\ outcome = "NoAcceptableMethod" =>
       /\ GreetingReplyRead /\ rpos = 2
       /\ rx[1] = 5 /\ rx[2] = 255
       /\ replies = <<>> /\ ~method.created

\* the greeting reply 04 ff made connect fail with InvalidResponseVersion
C18_Witness ==
  /\ rpos = 2
  /\ rx[1] = 4 /\ rx[2] = 255
  /\ outcome = "InvalidResponseVersion"
  /\ SessionGone

\* connect has read a greeting reply 05 m with m other than ff
MethodSelected == GreetingReplyRead /\ rx[1] = 5 /\ rx[2] # 255

\* C19: after a greeting reply 05 m with m other than ff, m being the
\* offered code 00 or not, connect does not fail: it creates the method, runs
\* the handshake and returns the session, and the constructor goes on to
\* send_request, which writes a request unless the target cannot be encoded.
C19_SelectedMethodNotCompared ==
  MethodSelected =>
    /\ pc \notin {"idle", "method", "greeting", "greeting_reply"}
    /\ pc = "create" => ~method.created /\ outcome = "none"
    /\ pc = "handshake" =>
         method.created /\ ~method.handshaken /\ outcome = "none"
    /\ pc \notin {"create", "handshake"} =>
         method.created /\ method.handshaken
    /\ pc = "request" => ENABLED SendRequest /\ outcome = "none"
    /\ pc \notin {"create", "handshake", "request"} =>
         \/ Len(writes) >= 2 /\ writes[2].op = "request"
                             /\ writes[2].handshaken
         \/ Len(writes) = 1 /\ outcome = "DomainTooLong"

\* the proxy selected method 02, which was not offered, and the request was
\* written
C19_Witness ==
  /\ rpos >= 2
  /\ rx[1] = 5 /\ rx[2] = 2
  /\ method.handshaken
  /\ Len(writes) = 2
  /\ writes[2].op = "request"
  /\ writes[2].n = Len(writes[2].buf)

\* C20: when connect starts to read the greeting reply the stream has
\* accepted all three bytes of the greeting, and when send_request starts to
\* read the reply the stream has accepted, after the greeting, every byte of
\* the encoded request, also on a stream whose write accepts only a prefix
\* of the buffer it is given.
C20_WholeBufferWritten ==
  /\ pc = "greeting_reply" => wire = Greeting
  /\ pc = "reply" => wire = Greeting \o data

\* C21: every request with address type 03 that send_request hands to the
\* stream, and that the stream accepts bytes of, has a length byte between 1
\* and 255; a Domain target with an empty name puts no request on the wire.
C21_DomainLengthByte ==
  \A i \in DOMAIN writes :
    (writes[i].op = "request" /\ writes[i].n # -1 /\ writes[i].buf[4] = 3) =>
      /\ writes[i].buf[5] \in 1..255
      /\ call.target.host # <<>>

\* C22: whatever bytes the proxy sends as a reply, recv_reply ends with an
\* address or with one of the errors of Socks5Error: no slice it takes of
\* its 262-byte buffer and no index into a slice is out of range, so no
\* call of it aborts.
C22_RecvReplyNeverAborts ==
  /\ outcome # "panic"
  /\ \A i \in DOMAIN replies :
       /\ replies[i].res.st \in {"ok", "err"}
       /\ replies[i].res.st = "err" => replies[i].res.err \in Socks5Errors

====
